---- MODULE Spec2Model ----
(***************************************************************************)
(* Model of dev-metric: GitHubStatsAnalyzer (src/dev-metric.mjs) and       *)
(* DevMetricsAnalyzer (src/dev-metric.js).                                 *)
(*                                                                         *)
(* Instants are whole seconds since 1970-01-01T00:00:00Z.  A calendar date *)
(* ("YYYY-MM-DD") is the tuple <<year, month, day>>; fixed-width ISO date  *)
(* strings compare as these tuples do.                                     *)
(***************************************************************************)
EXTENDS Integers, Sequences, FiniteSets, TLC

VARIABLES
    run,            \* entry point under analysis
    pc,             \* position of the awaiting flow of control
    tz,             \* offset of the process's time zone, seconds east of UTC
    log,            \* console.error / console.log lines, in order
    \* processStats
    commitActivity, pullRequests, deployments, idx, weeklyPRStats, stats,
    \* exportStatsToJson
    epc, files,
    \* main
    settled, report, charts,
    \* DevMetricsAnalyzer.collectData
    githubData, asanaData, jsReport, chartData,
    \* retryRequest
    maxRetries, i, calls, attempts, sleeps, retryResult,
    \* getAllPaginatedData
    call, filterFn, page, allData, hasNextPage, requests, served, fetchResult

retryVars == <<maxRetries, i, calls, attempts, sleeps, retryResult>>
fetchVars == <<call, filterFn, page, allData, hasNextPage, requests, served, fetchResult>>
composeVars == <<commitActivity, pullRequests, deployments, idx, weeklyPRStats, stats>>
exportVars == <<epc, files>>
mainVars == <<settled, report, charts>>
jsVars == <<githubData, asanaData, jsReport, chartData>>
vars == <<run, pc, tz, log, retryVars, fetchVars, composeVars, exportVars, mainVars, jsVars>>

\* what each component leaves alone
exceptRetry == <<tz, fetchVars, composeVars, exportVars, mainVars, jsVars>>
exceptFetch == <<tz, retryVars, composeVars, exportVars, mainVars, jsVars>>
exceptCompose == <<tz, retryVars, fetchVars, mainVars, jsVars>>
exceptExport == <<tz, retryVars, fetchVars, composeVars, mainVars, jsVars>>
exceptJs == <<run, tz, retryVars, fetchVars, composeVars, exportVars, mainVars>>

----------------------------------------------------------------------------
(* Bounds *)
MaxPages == 2
MaxPerPage == 2
MaxRetriesArg == 5
MaxPRs == 3
MaxDeployments == 2
MaxTasks == 2
MainPerPage == 1

----------------------------------------------------------------------------
(* Dates and numbers as the JavaScript runtime computes them *)

SecondsPerDay == 86400

\* Math.floor(a / b) for b > 0
FloorDiv(a, b) == IF a >= 0 THEN a \div b ELSE -((-a + b - 1) \div b)

\* day number (days since 1970-01-01) of the local day holding instant t,
\* for a process whose clock is off seconds east of UTC
DayNumber(t, off) == FloorDiv(t + off, SecondsPerDay)

\* Date.prototype.getUTCDay / dayjs().day(): Sunday = 0 ... Saturday = 6;
\* 1970-01-01 was a Thursday
DayOfWeek(day) == (day + 4) % 7

\* year, month, day of a day number (proleptic Gregorian calendar), as
\* toISOString().split("T")[0] and format("YYYY-MM-DD") print it
CivilFromDays(day) ==
    LET z == day + 719468
        era == FloorDiv(z, 146097)
        doe == z - era * 146097
        yoe == (doe - doe \div 1460 + doe \div 36524 - doe \div 146096) \div 365
        doy == doe - (365 * yoe + yoe \div 4 - yoe \div 100)
        mp == (5 * doy + 2) \div 153
        d == doy - (153 * mp + 2) \div 5 + 1
        m == IF mp < 10 THEN mp + 3 ELSE mp - 9
        y == yoe + era * 400 + (IF m <= 2 THEN 1 ELSE 0)
    IN <<y, m, d>>

\* MakeDay(year, month, date): day number of a year/month/date whose month
\* and date may lie outside their ranges (ECMAScript Date arithmetic)
MakeDay(year, month, date) ==
    LET ym == year + FloorDiv(month - 1, 12)
        mn == ((month - 1) % 12) + 1
        y == IF mn <= 2 THEN ym - 1 ELSE ym
        era == FloorDiv(y, 400)
        yoe == y - era * 400
        mp == IF mn > 2 THEN mn - 3 ELSE mn + 9
        doy == (153 * mp + 2) \div 5
        doe == yoe * 365 + yoe \div 4 - yoe \div 100 + doy
    IN era * 146097 + doe - 719468 + (date - 1)

\* a.week.localeCompare(b.week) < 0 on "YYYY-MM-DD" strings
DateLess(a, b) ==
    \/ a[1] < b[1]
    \/ a[1] = b[1] /\ a[2] < b[2]
    \/ a[1] = b[1] /\ a[2] = b[2] /\ a[3] < b[3]

Number(cents) == [kind |-> "number", cents |-> cents]
NaN == [kind |-> "NaN", cents |-> 0]
Infinity == [kind |-> "Infinity", cents |-> 0]

\* (num / den).toFixed(2) for num >= 0, den >= 0: the decimal string, kept as
\* its value in hundredths ("40.00" is 4000); 0/0 prints "NaN", x/0 "Infinity"
ToFixed2(num, den) ==
    IF den = 0
    THEN IF num = 0 THEN NaN ELSE Infinity
    ELSE Number((200 * num + den) \div (2 * den))

----------------------------------------------------------------------------
(* Records delivered by the data source *)

Absent == 0   \* merged_at: null

\* analysis window [startDate, endDate] as instants
startDate == 1717200000   \* 2024-06-01T00:00:00Z
endDate == 1719705600     \* 2024-06-30T00:00:00Z

PR(created, merged, labels) ==
    [created_at |-> created, merged_at |-> merged, labels |-> labels]

\* dayjs(x.created_at).isBetween(startDate, endDate, null, "[]")
isBetween(t, lo, hi) == lo <= t /\ t <= hi

\* dayjs("YYYY-MM-DD"): midnight of that date on the process's clock
ParseDate(utcMidnight, off) == utcMidnight - off

windowFilter(rec) ==
    isBetween(rec.created_at, ParseDate(startDate, tz), ParseDate(endDate, tz))

\* filterFn ? data.filter(filterFn) : data
ApplyFilter(f, data) ==
    IF f = "none" THEN data ELSE SelectSeq(data, windowFilter)

\* linkHeader && linkHeader.includes('rel="next"')
\* link: "absent" (no Link header), "last" (Link without rel="next"), "next"
HasNextLink(link) ==
    IF link = "absent" THEN "undefined"
    ELSE IF link = "next" THEN "true" ELSE "false"

Truthy(v) == v = "true"

\* records the fetch harness serves: two inside the window, one before it
RecA == PR(1718186400, Absent, {"bug"})
RecB == PR(1716163200, Absent, {})
RecC == PR(1718496000, 1718500000, {})
FetchRecords == {RecA, RecB, RecC}

SeqsUpTo(S, n) == UNION {[1..k -> S] : k \in 0..n}

Deployment(created) == [created_at |-> created]
Dep1 == Deployment(1718186400)                      \* Wed 2024-06-12T10:00:00Z
Dep2 == Deployment(1719792000)                      \* Mon 2024-07-01T00:00:00Z

\* pull requests around a week boundary, a year boundary and a leap February
PR1 == PR(1717891199, Absent, {})                   \* Sat 2024-06-08T23:59:59Z
PR2 == PR(1717891200, 1717898400, {"bug", "P1"})    \* Sun 2024-06-09T00:00:00Z
PR3 == PR(1718186400, 1718272800, {"P1"})           \* Wed 2024-06-12T10:00:00Z
PR4 == PR(1718186400, Absent, {"bug"})              \* Wed 2024-06-12T10:00:00Z
PR5 == PR(1735732800, 1735736400, {"bug"})          \* Wed 2025-01-01T12:00:00Z
PR6 == PR(1709366400, Absent, {})                   \* Sat 2024-03-02T08:00:00Z
ComposeRecords == {PR1, PR2, PR3, PR4, PR5, PR6}

\* the records each request of a run can deliver, and how many a page holds
SourceRecords(c) ==
    IF c = "pullRequests" THEN {PR1, PR2}
    ELSE IF c = "deployments" THEN {Dep1}
    ELSE FetchRecords

SourcePerPage(c) ==
    IF c = "harness" THEN MaxPerPage
    ELSE IF c = "pullRequests" THEN MainPerPage
    ELSE Len(<<Dep1>>)

PageResponse(kind, data, link) == [kind |-> kind, data |-> data, link |-> link]

\* what requestFn(page) can answer: a response or a thrown error; the source
\* holds at most MaxPages pages of records, whatever its last page signals
Responses(p, recs, perPage) ==
    {PageResponse("throw", <<>>, "absent")}
    \cup {PageResponse("ok", <<>>, l) : l \in {"absent", "last"}}
    \cup IF p > MaxPages THEN {}
         ELSE {PageResponse("ok", d, l) :
                 d \in SeqsUpTo(recs, perPage) \ {<<>>},
                 l \in {"absent", "last", "next"}}

----------------------------------------------------------------------------
(* getAllPaginatedData *)

FetchStart(c, f) ==
    /\ call' = c
    /\ filterFn' = f
    /\ page' = 1
    /\ allData' = <<>>
    /\ hasNextPage' = "true"
    /\ requests' = <<>>
    /\ served' = <<>>

AccumulatePrepend(acc, filteredData) == filteredData \o acc

\* allData = allData.concat(filteredData)
Accumulate(acc, filteredData) == acc \o filteredData

NextPageSkip(p) == p + 2

\* page++
NextPage(p) == p + 1

\* one iteration of the while loop whose request resolves
FetchPageOk ==
    /\ pc = "fetch_loop"
    /\ Truthy(hasNextPage)
    /\ \E resp \in Responses(page, SourceRecords(call), SourcePerPage(call)) :
        /\ resp.kind = "ok"
        /\ requests' = Append(requests, page)
        /\ served' = Append(served, resp)
        /\ IF Len(resp.data) = 0
           THEN /\ pc' = "fetch_break"
                /\ UNCHANGED <<allData, hasNextPage, page>>
           ELSE LET filteredData == ApplyFilter(filterFn, resp.data)
                    hn == HasNextLink(resp.link)
                IN /\ allData' = Accumulate(allData, filteredData)
                   /\ hasNextPage' = hn
                   /\ IF Len(filteredData) = 0 /\ ~Truthy(hn)
                      THEN pc' = "fetch_break" /\ page' = page
                      ELSE pc' = "fetch_loop" /\ page' = NextPage(page)
    /\ UNCHANGED <<run, log, call, filterFn, fetchResult, exceptFetch>>

FetchPageThrowContinue ==
    /\ pc = "fetch_loop"
    /\ Truthy(hasNextPage)
    /\ page <= MaxPages
    /\ requests' = Append(requests, page)
    /\ served' = Append(served, PageResponse("throw", <<>>, "absent"))
    /\ page' = page + 1
    /\ log' = Append(log, "Error fetching page")
    /\ UNCHANGED <<pc, run, call, filterFn, allData, hasNextPage, fetchResult, exceptFetch>>

\* one iteration whose request throws: logged, break
FetchPageThrow ==
    /\ pc = "fetch_loop"
    /\ Truthy(hasNextPage)
    /\ requests' = Append(requests, page)
    /\ served' = Append(served, PageResponse("throw", <<>>, "absent"))
    /\ pc' = "fetch_break"
    /\ log' = Append(log, "Error fetching page")
    /\ UNCHANGED <<run, call, filterFn, page, allData, hasNextPage, fetchResult, exceptFetch>>

FetchLoopExit ==
    \/ pc = "fetch_break"
    \/ pc = "fetch_loop" /\ ~Truthy(hasNextPage)

\* return allData
FetchReturn ==
    /\ FetchLoopExit
    /\ fetchResult' = [kind |-> "return", value |-> allData]
    /\ pc' = "fetch_done"
    /\ UNCHANGED <<run, log, call, filterFn, page, allData, hasNextPage, requests, served, exceptFetch>>

IdleCompose ==
    /\ commitActivity = <<>> /\ pullRequests = <<>> /\ deployments = <<>>
    /\ idx = 1 /\ weeklyPRStats = <<>> /\ stats = <<>>

IdleExport == epc = "idle" /\ files = <<>>

IdleMain == settled = <<>> /\ report = <<>> /\ charts = <<>>

\* metrics = {prs: [], deployments: [], weeklyStats: {}} and
\* metrics = {tasks: [], bugs: [], weeklyStats: {}}
EmptyGitHubMetrics == [prs |-> <<>>, weeklyStats |-> <<>>]
EmptyAsanaMetrics == [tasks |-> <<>>, bugs |-> <<>>, weeklyStats |-> <<>>]

IdleJs ==
    /\ githubData = EmptyGitHubMetrics /\ asanaData = EmptyAsanaMetrics
    /\ jsReport = <<>> /\ chartData = <<>>

IdleRetry ==
    /\ maxRetries = 0 /\ i = 0 /\ calls = 0 /\ attempts = <<>> /\ sleeps = <<>>
    /\ retryResult = [kind |-> "pending", value |-> <<>>, status |-> 0]

InitFetch ==
    /\ run = "getAllPaginatedData"
    /\ pc = "fetch_loop"
    /\ call = "harness"
    /\ filterFn \in {"none", "window"}
    /\ page = 1
    /\ allData = <<>>
    /\ hasNextPage = "true"
    /\ requests = <<>>
    /\ served = <<>>
    /\ fetchResult = [kind |-> "pending", value |-> <<>>]
    /\ tz = 0
    /\ log = <<>>
    /\ IdleRetry
    /\ IdleCompose
    /\ IdleExport
    /\ IdleMain
    /\ IdleJs

NextFetch == FetchPageOk \/ FetchPageThrow \/ FetchReturn

SpecFetch == InitFetch /\ [][NextFetch]_vars

----------------------------------------------------------------------------
(* retryRequest *)

DefaultMaxRetries == 5
BackoffMs == 2000

CommitWeek(week, total) == [week |-> week, total |-> total]

\* weekly buckets of GET /repos/{owner}/{repo}/stats/commit_activity
W1 == CommitWeek(1717891200, 5)
W2 == CommitWeek(1718496000, 7)
W3 == CommitWeek(1719100800, 0)

ComputeResponse(kind, value, status) ==
    [kind |-> kind, value |-> value, status |-> status]

\* what requestFn() can answer: an array, a non-array body ("object": the {}
\* of a 202 reply), nothing ("undefined"), or a thrown error with a status
ComputeResponses(r) ==
    IF r = "main"
    THEN {ComputeResponse("array", <<W1, W2>>, 200),
          ComputeResponse("object", <<>>, 202),
          ComputeResponse("throw", <<>>, 401)}
    ELSE {ComputeResponse("array", a, 200) : a \in {<<>>, <<W1, W2>>, <<W1, W2, W3>>}}
         \cup {ComputeResponse("object", <<>>, 202), ComputeResponse("undefined", <<>>, 200)}
         \cup {ComputeResponse("throw", <<>>, st) : st \in {202, 401, 500}}

OutcomeRetryAll(resp) ==
    IF resp.kind = "array" THEN "return" ELSE "wait"

\* what one pass of the loop body does with the answer of requestFn()
\*   response && Array.isArray(response)  -> return response
\*   any other value                      -> log, sleep, next attempt
\*   error.status === 202                 -> log, sleep, continue
\*   any other error                      -> throw error
Outcome(resp) ==
    IF resp.kind = "throw"
    THEN IF resp.status = 202 THEN "wait" ELSE "throw"
    ELSE IF resp.kind = "array" THEN "return" ELSE "wait"

NextAttemptStuck(n) == n

\* i++ of the for loop
NextAttempt(n) == n + 1

RetryStart(m) ==
    /\ maxRetries' = m
    /\ i' = 0
    /\ calls' = 0
    /\ attempts' = <<>>
    /\ sleeps' = <<>>
    /\ retryResult' = [kind |-> "pending", value |-> <<>>, status |-> 0]

RetryCall(resp) ==
    /\ pc = "retry_loop"
    /\ i < maxRetries
    /\ calls' = calls + 1
    /\ attempts' = Append(attempts, resp)

\* requestFn() yields an array: returned at once
RetryAttemptReturn ==
    /\ \E resp \in ComputeResponses(run) :
        /\ Outcome(resp) = "return"
        /\ RetryCall(resp)
        /\ retryResult' = [kind |-> "return", value |-> resp.value, status |-> 0]
    /\ pc' = "retry_done"
    /\ UNCHANGED <<run, log, maxRetries, i, sleeps, exceptRetry>>

\* requestFn() is not ready: logged, the backoff timer is started
RetryAttemptWait ==
    /\ \E resp \in ComputeResponses(run) :
        /\ Outcome(resp) = "wait"
        /\ RetryCall(resp)
    /\ pc' = "retry_sleep"
    /\ UNCHANGED <<run, log, maxRetries, i, sleeps, retryResult, exceptRetry>>

\* requestFn() fails with another error: rethrown
RetryAttemptThrow ==
    /\ \E resp \in ComputeResponses(run) :
        /\ Outcome(resp) = "throw"
        /\ RetryCall(resp)
        /\ retryResult' = [kind |-> "throw", value |-> <<>>, status |-> resp.status]
    /\ pc' = "retry_done"
    /\ UNCHANGED <<run, log, maxRetries, i, sleeps, exceptRetry>>

\* setTimeout(resolve, 2000 * (i + 1)) fires; next pass of the for loop
RetrySleep ==
    /\ pc = "retry_sleep"
    /\ sleeps' = Append(sleeps, BackoffMs * (i + 1))
    /\ i' = NextAttempt(i)
    /\ pc' = "retry_loop"
    /\ UNCHANGED <<run, log, maxRetries, calls, attempts, retryResult, exceptRetry>>

\* the for loop ends: "Maximum retries reached", return []
RetryExhausted ==
    /\ pc = "retry_loop"
    /\ ~(i < maxRetries)
    /\ retryResult' = [kind |-> "return", value |-> <<>>, status |-> 0]
    /\ pc' = "retry_done"
    /\ log' = Append(log, "Maximum retries reached, returning empty array")
    /\ UNCHANGED <<run, maxRetries, i, calls, attempts, sleeps, exceptRetry>>

IdleFetch ==
    /\ call = "none" /\ filterFn = "none" /\ page = 1 /\ allData = <<>>
    /\ hasNextPage = "true" /\ requests = <<>> /\ served = <<>>
    /\ fetchResult = [kind |-> "pending", value |-> <<>>]

InitRetry ==
    /\ run = "retryRequest"
    /\ pc = "retry_loop"
    /\ maxRetries \in 0..MaxRetriesArg
    /\ i = 0
    /\ calls = 0
    /\ attempts = <<>>
    /\ sleeps = <<>>
    /\ retryResult = [kind |-> "pending", value |-> <<>>, status |-> 0]
    /\ tz = 0
    /\ log = <<>>
    /\ IdleFetch
    /\ IdleCompose
    /\ IdleExport
    /\ IdleMain
    /\ IdleJs

NextRetry ==
    \/ RetryAttemptReturn
    \/ RetryAttemptWait
    \/ RetryAttemptThrow
    \/ RetrySleep
    \/ RetryExhausted

SpecRetry == InitRetry /\ [][NextRetry]_vars

----------------------------------------------------------------------------
(* Inputs of the composition *)

TZOffsets == {-14400, 0, 32400}   \* UTC-4, UTC, UTC+9

----------------------------------------------------------------------------
(* processStats *)

WeeksPerYear == 52
WeeksPerMonth == 4
SecondsPerHour == 3600

\* pr.merged_at is truthy
IsMerged(pr) == pr.merged_at # Absent

IsBugNever(pr) == FALSE

\* pr.labels.some(label => label.name === "bug")
IsBug(pr) == "bug" \in pr.labels

\* weekStart = new Date(created_at); setUTCHours(0, 0, 0, 0);
\* setUTCDate(getUTCDate() - getUTCDay()); toISOString().split("T")[0]
WeekKey(t) ==
    LET day == DayNumber(t, 0)
        c == CivilFromDays(day)
        weekStart == MakeDay(c[1], c[2], c[3] - DayOfWeek(day))
    IN CivilFromDays(weekStart)

\* the zero bucket created for a week key not seen before
NewBucket(weekKey) ==
    [week |-> weekKey, prCount |-> 0, mergedCount |-> 0, totalMergeTime |-> 0,
     bugPRCount |-> 0, mergedBugPRCount |-> 0]

UpdateBucketMergedCountsAsBug(b, pr) ==
    [week |-> b.week,
     prCount |-> b.prCount + 1,
     bugPRCount |-> b.bugPRCount + (IF IsBug(pr) THEN 1 ELSE 0),
     mergedBugPRCount |-> b.mergedBugPRCount + (IF IsMerged(pr) THEN 1 ELSE 0),
     mergedCount |-> b.mergedCount + (IF IsMerged(pr) THEN 1 ELSE 0),
     totalMergeTime |->
        b.totalMergeTime + (IF IsMerged(pr) THEN pr.merged_at - pr.created_at ELSE 0)]

\* the counters one pull request adds to its bucket; totalMergeTime is kept
\* in seconds (the code keeps hours as a float)
UpdateBucket(b, pr) ==
    [week |-> b.week,
     prCount |-> b.prCount + 1,
     bugPRCount |-> b.bugPRCount + (IF IsBug(pr) THEN 1 ELSE 0),
     mergedBugPRCount |->
        b.mergedBugPRCount + (IF IsBug(pr) /\ IsMerged(pr) THEN 1 ELSE 0),
     mergedCount |-> b.mergedCount + (IF IsMerged(pr) THEN 1 ELSE 0),
     totalMergeTime |->
        b.totalMergeTime + (IF IsMerged(pr) THEN pr.merged_at - pr.created_at ELSE 0)]

\* position of the bucket of a week key among the object's keys, 0 if absent
BucketIndex(buckets, weekKey) ==
    IF \E k \in 1..Len(buckets) : buckets[k].week = weekKey
    THEN CHOOSE k \in 1..Len(buckets) : buckets[k].week = weekKey
    ELSE 0

\* body of pullRequests.forEach; an object keeps its keys in insertion order
AccumulatePR(buckets, pr) ==
    LET weekKey == WeekKey(pr.created_at)
        k == BucketIndex(buckets, weekKey)
    IN IF k = 0
       THEN Append(buckets, UpdateBucket(NewBucket(weekKey), pr))
       ELSE [buckets EXCEPT ![k] = UpdateBucket(buckets[k], pr)]

\* insertion of one entry into an ascending sequence
RECURSIVE InsertByWeek(_, _)
InsertByWeek(sorted, e) ==
    IF sorted = <<>> THEN <<e>>
    ELSE IF DateLess(e.week, Head(sorted).week) THEN <<e>> \o sorted
    ELSE <<Head(sorted)>> \o InsertByWeek(Tail(sorted), e)

\* .sort((a, b) => a.week.localeCompare(b.week))
RECURSIVE SortByWeek(_)
SortByWeek(entries) ==
    IF entries = <<>> THEN <<>>
    ELSE InsertByWeek(SortByWeek(Tail(entries)), Head(entries))

\* one entry of weeklyPRMetrics
WeekMetric(b) ==
    [week |-> b.week,
     prCount |-> b.prCount,
     mergedCount |-> b.mergedCount,
     averageMergeTime |->
        IF b.mergedCount > 0
        THEN ToFixed2(b.totalMergeTime, SecondsPerHour * b.mergedCount)
        ELSE Number(0),
     bugPRCount |-> b.bugPRCount,
     mergedBugPRCount |-> b.mergedBugPRCount]

\* Object.entries(weeklyPRStats).map(...).sort(...)
WeeklyPRMetrics(buckets) ==
    SortByWeek([k \in 1..Len(buckets) |-> WeekMetric(buckets[k])])

\* commitActivity.map(week => ({week: new Date(week.week * 1000)
\*   .toISOString().split("T")[0], commits: week.total}))
WeeklyCommits(activity) ==
    [k \in 1..Len(activity) |->
        [week |-> CivilFromDays(DayNumber(activity[k].week, 0)),
         commits |-> activity[k].total]]

RECURSIVE SumCommits(_)
SumCommits(weeks) ==
    IF weeks = <<>> THEN 0 ELSE Head(weeks).commits + SumCommits(Tail(weeks))

\* lastMonth = new Date(); lastMonth.setMonth(lastMonth.getMonth() - 1)
LastMonth(now, off) ==
    LET day == DayNumber(now, off)
        c == CivilFromDays(day)
        timeOfDay == (now + off) - day * SecondsPerDay
    IN MakeDay(c[1], c[2] - 1, c[3]) * SecondsPerDay + timeOfDay - off

\* ((part / whole) * 100).toFixed(2)
Rate(part, whole) == ToFixed2(100 * part, whole)

\* the stats object built at the end of processStats
BuildStats(activity, prs, deps, buckets, now, off) ==
    LET weeklyCommits == WeeklyCommits(activity)
        weeklyPRMetrics == WeeklyPRMetrics(buckets)
        lastMonth == LastMonth(now, off)
        IsRecent(rec) == rec.created_at > lastMonth
        IsMergedBug(pr) == IsMerged(pr) /\ IsBug(pr)
        recentPRs == SelectSeq(prs, IsRecent)
        recentDeployments == SelectSeq(deps, IsRecent)
    IN [commitStats |->
          [totalCommitsLastYear |-> SumCommits(weeklyCommits),
           averageCommitsPerWeek |->
              ToFixed2(SumCommits(weeklyCommits), Len(weeklyCommits)),
           weeklyCommitTrend |-> weeklyCommits],
        prStats |->
          [totalPRs |-> Len(prs),
           mergedPRs |-> Len(SelectSeq(prs, IsMerged)),
           averagePRsPerWeek |-> <<Len(prs), WeeksPerYear>>,
           prMergeRate |-> Rate(Len(SelectSeq(prs, IsMerged)), Len(prs)),
           recentPRCount |-> Len(recentPRs),
           recentPRsPerWeek |-> ToFixed2(Len(recentPRs), WeeksPerMonth),
           weeklyMetrics |-> weeklyPRMetrics,
           bugPRs |->
              [total |-> Len(SelectSeq(prs, IsBug)),
               merged |-> Len(SelectSeq(prs, IsMergedBug)),
               weeklyMetrics |-> weeklyPRMetrics]],
        deploymentStats |->
          [totalDeployments |-> Len(deps),
           averageDeploymentsPerWeek |-> <<Len(deps), WeeksPerYear>>,
           recentDeploymentCount |-> Len(recentDeployments),
           recentDeploymentsPerWeek |->
              ToFixed2(Len(recentDeployments), WeeksPerMonth)]]

\* the times at which a composition may run
Nows == {1718841600, 1722427200}   \* 2024-06-20T00:00:00Z, 2024-07-31T12:00:00Z

\* processStats is entered with the three fetched collections
ProcessStart(activity, prs, deps) ==
    /\ commitActivity' = activity
    /\ pullRequests' = prs
    /\ deployments' = deps
    /\ idx' = 1
    /\ weeklyPRStats' = <<>>
    /\ stats' = <<>>

\* one pass of pullRequests.forEach
ProcessPR ==
    /\ pc = "process_loop"
    /\ idx <= Len(pullRequests)
    /\ weeklyPRStats' = AccumulatePR(weeklyPRStats, pullRequests[idx])
    /\ idx' = idx + 1
    /\ UNCHANGED <<run, pc, log, commitActivity, pullRequests, deployments, stats,
                   exportVars, exceptCompose>>

\* the rest of processStats: the metrics, the stats object, the call of
\* exportStatsToJson (which runs up to its first await), return stats
ComposeStats ==
    /\ pc = "process_loop"
    /\ idx > Len(pullRequests)
    /\ \E now \in Nows :
         stats' = <<BuildStats(commitActivity, pullRequests, deployments,
                               weeklyPRStats, now, tz)>>
    /\ epc' = "mkdir"
    /\ pc' = "process_done"
    /\ UNCHANGED <<run, log, commitActivity, pullRequests, deployments, idx,
                   weeklyPRStats, files, exceptCompose>>

\* pullRequests.forEach from its first record to its last
RECURSIVE AccumulateAll(_, _)
AccumulateAll(buckets, prs) ==
    IF prs = <<>> THEN buckets
    ELSE AccumulateAll(AccumulatePR(buckets, Head(prs)), Tail(prs))

\* processStats is called once more with the same arguments, at whatever
\* time it is then
ProcessStatsAgain ==
    /\ run = "processStats"
    /\ pc = "process_done"
    /\ idx' = Len(pullRequests) + 1
    /\ weeklyPRStats' = AccumulateAll(<<>>, pullRequests)
    /\ \E now \in Nows :
         stats' = <<BuildStats(commitActivity, pullRequests, deployments,
                               weeklyPRStats', now, tz)>>
    /\ epc' = "mkdir"
    /\ UNCHANGED <<run, pc, log, commitActivity, pullRequests, deployments,
                   files, exceptCompose>>

----------------------------------------------------------------------------
(* exportStatsToJson *)

\* await fs.mkdir("output", {recursive: true}) resolves
ExportMkdir ==
    /\ epc = "mkdir"
    /\ epc' = "write_detailed"
    /\ UNCHANGED <<run, pc, log, files, exceptExport>>

\* await fs.writeFile(`output/detailed-metrics-...json`, ...) resolves
ExportWriteDetailed ==
    /\ epc = "write_detailed"
    /\ files' = Append(files, "detailed-metrics")
    /\ epc' = "write_weekly"
    /\ UNCHANGED <<run, pc, log, exceptExport>>

\* await fs.writeFile(`output/weekly-metrics-...json`, ...) resolves
ExportWriteWeekly ==
    /\ epc = "write_weekly"
    /\ files' = Append(files, "weekly-metrics")
    /\ epc' = "done"
    /\ UNCHANGED <<run, pc, log, exceptExport>>

\* where an export that failed was when it failed
FailedAt(step) ==
    IF step = "mkdir" THEN "failed_mkdir"
    ELSE IF step = "write_detailed" THEN "failed_write_detailed"
    ELSE "failed_write_weekly"

ExportFailEscapes ==
    /\ epc \in {"mkdir", "write_detailed", "write_weekly"}
    /\ epc' = FailedAt(epc)
    /\ log' = log \o <<"Error fetching repository statistics", "Error generating report">>
    /\ pc' = "main_done"
    /\ UNCHANGED <<run, files, exceptExport>>

\* any of the three awaits rejects: caught, logged, the function ends
ExportFail ==
    /\ epc \in {"mkdir", "write_detailed", "write_weekly"}
    /\ log' = Append(log, "Error exporting stats to JSON")
    /\ epc' = FailedAt(epc)
    /\ UNCHANGED <<run, pc, files, exceptExport>>

----------------------------------------------------------------------------
(* DevMetricsAnalyzer (src/dev-metric.js) *)

\* dayjs(t).startOf("week").format("YYYY-MM-DD"): dayjs works on the
\* process's local clock; the default locale starts the week on Sunday
JsWeekKey(t, off) ==
    LET day == DayNumber(t, off)
        c == CivilFromDays(day)
    IN CivilFromDays(MakeDay(c[1], c[2], c[3] - DayOfWeek(day)))

\* dayjs(a).isBetween(lo, hi): both ends excluded
isBetweenOpen(t, lo, hi) == lo < t /\ t < hi

\* dayjs(mergedAt).diff(dayjs(createdAt), "hour")
DiffHours(later, earlier) == (later - earlier) \div SecondsPerHour

\* the fields getGitHubMetrics keeps of a pull request
JsPR(pr) == [createdAt |-> pr.created_at, mergedAt |-> pr.merged_at]

JsBucketIndex(buckets, week) ==
    IF \E k \in 1..Len(buckets) : buckets[k].week = week
    THEN CHOOSE k \in 1..Len(buckets) : buckets[k].week = week
    ELSE 0

\* body of prs.forEach in aggregateWeeklyStats
JsAccumulatePR(buckets, pr, off) ==
    LET week == JsWeekKey(pr.createdAt, off)
        k == JsBucketIndex(buckets, week)
        old == IF k = 0 THEN [week |-> week, prCount |-> 0, reviewTime |-> 0]
               ELSE buckets[k]
        new == [week |-> week,
                prCount |-> old.prCount + 1,
                reviewTime |-> old.reviewTime +
                    (IF pr.mergedAt # Absent
                     THEN DiffHours(pr.mergedAt, pr.createdAt) ELSE 0)]
    IN IF k = 0 THEN Append(buckets, new) ELSE [buckets EXCEPT ![k] = new]

RECURSIVE aggregateWeeklyStatsFrom(_, _, _)
aggregateWeeklyStatsFrom(buckets, prs, off) ==
    IF prs = <<>> THEN buckets
    ELSE aggregateWeeklyStatsFrom(JsAccumulatePR(buckets, Head(prs), off), Tail(prs), off)

aggregateWeeklyStats(prs, off) == aggregateWeeklyStatsFrom(<<>>, prs, off)

\* body of tasks.forEach in aggregateWeeklyTaskStats
JsAccumulateTask(buckets, task, off) ==
    LET week == JsWeekKey(task.completedAt, off)
        k == JsBucketIndex(buckets, week)
        old == IF k = 0 THEN [week |-> week, taskCount |-> 0, bugCount |-> 0]
               ELSE buckets[k]
        new == [week |-> week,
                taskCount |-> old.taskCount + 1,
                bugCount |-> old.bugCount + (IF task.isBug THEN 1 ELSE 0)]
    IN IF k = 0 THEN Append(buckets, new) ELSE [buckets EXCEPT ![k] = new]

RECURSIVE aggregateWeeklyTaskStatsFrom(_, _, _)
aggregateWeeklyTaskStatsFrom(buckets, tasks, off) ==
    IF tasks = <<>> THEN buckets
    ELSE aggregateWeeklyTaskStatsFrom(JsAccumulateTask(buckets, Head(tasks), off),
                                      Tail(tasks), off)

aggregateWeeklyTaskStats(tasks, off) == aggregateWeeklyTaskStatsFrom(<<>>, tasks, off)

\* tasks of the Asana project
Task(name, created, completed) ==
    [name |-> name, created_at |-> created, completed_at |-> completed]
Task1 == Task("Fix login Bug", 1717200000, 1717891200)  \* done Sun 2024-06-09T00:00:00Z
Task2 == Task("Write docs", 1717200000, 1718186400)     \* done Wed 2024-06-12T10:00:00Z
Task3 == Task("debug build", 1717200000, Absent)        \* open
AsanaTasks == {Task1, Task2, Task3}

\* taskDetail.name.toLowerCase().includes("bug")
NameIncludesBug(name) == name \in {"Fix login Bug", "debug build"}

\* the taskData kept of a completed task inside the window
TaskData(t) ==
    [name |-> t.name, createdAt |-> t.created_at, completedAt |-> t.completed_at,
     isBug |-> NameIncludesBug(t.name)]

\* mkdir("output") resolves
JsMkdir ==
    /\ pc = "js_mkdir"
    /\ pc' = "js_github"
    /\ UNCHANGED <<log, jsVars, exceptJs>>

\* getGitHubMetrics: pulls.list answers one page of pull requests
JsGetGitHubMetrics ==
    /\ pc = "js_github"
    /\ \E pulls \in SeqsUpTo(ComposeRecords, MaxPRs) :
        LET Kept(pr) == isBetweenOpen(pr.created_at, ParseDate(startDate, tz),
                                      ParseDate(endDate, tz))
            kept == SelectSeq(pulls, Kept)
            prs == [k \in 1..Len(kept) |-> JsPR(kept[k])]
        IN githubData' = [prs |-> prs, weeklyStats |-> aggregateWeeklyStats(prs, tz)]
    /\ pc' = "js_asana"
    /\ UNCHANGED <<log, asanaData, jsReport, chartData, exceptJs>>

\* getGitHubMetrics: pulls.list rejects; caught, the empty metrics are returned
JsGetGitHubMetricsThrow ==
    /\ pc = "js_github"
    /\ log' = Append(log, "Error fetching GitHub metrics")
    /\ pc' = "js_asana"
    /\ UNCHANGED <<jsVars, exceptJs>>

AsanaKept(tasks, off) ==
    LET Kept(t) == /\ t.completed_at # Absent
                   /\ isBetweenOpen(t.completed_at, ParseDate(startDate, off),
                                    ParseDate(endDate, off))
        kept == SelectSeq(tasks, Kept)
    IN [k \in 1..Len(kept) |-> TaskData(kept[k])]

IsBugTask(t) == t.isBug

\* getAsanaMetrics: every task is read
JsGetAsanaMetrics ==
    /\ pc = "js_asana"
    /\ \E tasks \in SeqsUpTo(AsanaTasks, MaxTasks) :
        LET kept == AsanaKept(tasks, tz)
        IN asanaData' = [tasks |-> kept,
                         bugs |-> SelectSeq(kept, IsBugTask),
                         weeklyStats |-> aggregateWeeklyTaskStats(kept, tz)]
    /\ pc' = "js_report"
    /\ UNCHANGED <<log, githubData, jsReport, chartData, exceptJs>>

\* getAsanaMetrics: a request rejects after some tasks were read; caught, the
\* tasks read so far stay in the metrics, weeklyStats stays {}
JsGetAsanaMetricsThrow ==
    /\ pc = "js_asana"
    /\ \E tasks \in SeqsUpTo(AsanaTasks, MaxTasks - 1) :
        LET kept == AsanaKept(tasks, tz)
        IN asanaData' = [tasks |-> kept,
                         bugs |-> SelectSeq(kept, IsBugTask),
                         weeklyStats |-> <<>>]
    /\ log' = Append(log, "Error fetching Asana metrics")
    /\ pc' = "js_report"
    /\ UNCHANGED <<githubData, jsReport, chartData, exceptJs>>

RECURSIVE SumReviewHours(_)
SumReviewHours(prs) ==
    IF prs = <<>> THEN 0
    ELSE DiffHours(Head(prs).mergedAt, Head(prs).createdAt) + SumReviewHours(Tail(prs))

calculateAverageReviewTime(prs) ==
    LET Merged(pr) == pr.mergedAt # Absent
        mergedPRs == SelectSeq(prs, Merged)
    IN IF Len(mergedPRs) = 0 THEN Number(0)
       ELSE ToFixed2(SumReviewHours(mergedPRs), Len(mergedPRs))

\* the report object of generateReport
JsReport(github, asana) ==
    [github |-> [totalPRs |-> Len(github.prs),
                 averageReviewTime |-> calculateAverageReviewTime(github.prs),
                 prTrendByWeek |-> github.weeklyStats],
     asana |-> [totalTasks |-> Len(asana.tasks),
                totalBugs |-> Len(asana.bugs),
                bugRate |-> Rate(Len(asana.bugs), Len(asana.tasks)),
                taskTrendByWeek |-> asana.weeklyStats]]

\* generateReport: the report is built and written
JsGenerateReport ==
    /\ pc = "js_report"
    /\ jsReport' = <<JsReport(githubData, asanaData)>>
    /\ pc' = "js_charts"
    /\ UNCHANGED <<log, githubData, asanaData, chartData, exceptJs>>

\* Object.entries(weeklyStats).map(([date, stats]) => ({date, value}));
\* value is a quotient <<numerator, denominator>>; x || 0 turns NaN into 0
prepareChartData(weeklyStats, metric, isAverage) ==
    [k \in 1..Len(weeklyStats) |->
        [date |-> weeklyStats[k].week,
         value |-> IF isAverage
                   THEN IF weeklyStats[k].prCount = 0 THEN <<0, 1>>
                        ELSE <<weeklyStats[k][metric], weeklyStats[k].prCount>>
                   ELSE <<weeklyStats[k][metric], 1>>]]

\* generateCharts: the three series are prepared and rendered
JsGenerateCharts ==
    /\ pc = "js_charts"
    /\ chartData' = <<[prTrend |-> prepareChartData(githubData.weeklyStats, "prCount", FALSE),
                       bugTrend |-> prepareChartData(asanaData.weeklyStats, "bugCount", FALSE),
                       reviewTime |-> prepareChartData(githubData.weeklyStats, "reviewTime", TRUE)]>>
    /\ pc' = "js_done"
    /\ UNCHANGED <<log, githubData, asanaData, jsReport, exceptJs>>

\* mkdir, the report's writeFile or a chart's rendering rejects: caught by
\* collectData, logged, the run ends
JsFail ==
    /\ pc \in {"js_mkdir", "js_report", "js_charts"}
    /\ log' = Append(log, "Error in data collection")
    /\ pc' = "js_done"
    /\ UNCHANGED <<jsVars, exceptJs>>

----------------------------------------------------------------------------
(* getRepositoryStats and main (src/dev-metric.mjs) *)

\* the lines of generateReport that derive a number from the stats
GenerateReport(st) ==
    [totalCommitsLastYear |-> st.commitStats.totalCommitsLastYear,
     averageCommitsPerWeek |-> st.commitStats.averageCommitsPerWeek,
     totalPRs |-> st.prStats.totalPRs,
     mergedPRs |-> st.prStats.mergedPRs,
     prMergeRate |-> st.prStats.prMergeRate,
     averagePRsPerWeek |->
        ToFixed2(st.prStats.averagePRsPerWeek[1], st.prStats.averagePRsPerWeek[2]),
     recentPRsPerWeek |-> st.prStats.recentPRsPerWeek,
     totalBugPRs |-> st.prStats.bugPRs.total,
     mergedBugPRs |-> st.prStats.bugPRs.merged,
     bugPRMergeRate |-> Rate(st.prStats.bugPRs.merged, st.prStats.bugPRs.total),
     totalDeployments |-> st.deploymentStats.totalDeployments,
     averageDeploymentsPerWeek |->
        ToFixed2(st.deploymentStats.averageDeploymentsPerWeek[1],
                 st.deploymentStats.averageDeploymentsPerWeek[2]),
     recentDeploymentsPerWeek |-> st.deploymentStats.recentDeploymentsPerWeek]

ChartFiles ==
    <<"pr-trends.svg", "merge-time-trend.svg", "commit-activity.svg", "bug-pr-trend.svg">>

\* main calls getRepositoryStats, which awaits retryRequest
MainStart ==
    /\ run = "main"
    /\ pc = "main"
    /\ RetryStart(DefaultMaxRetries)
    /\ pc' = "retry_loop"
    /\ UNCHANGED <<run, log, exceptRetry>>

\* the frame of a retryRequest call that has settled is gone
RetryFrameDropped ==
    /\ i' = 0 /\ calls' = 0 /\ attempts' = <<>> /\ sleeps' = <<>>
    /\ UNCHANGED <<maxRetries, retryResult>>

GetStatsRetrySwallowed ==
    /\ run = "main"
    /\ pc = "retry_done"
    /\ settled' = Append(settled, "retryRequest")
    /\ RetryFrameDropped
    /\ commitActivity' = retryResult.value
    /\ FetchStart("pullRequests", "window")
    /\ pc' = "fetch_loop"
    /\ UNCHANGED <<run, tz, log, fetchResult, pullRequests, deployments,
                   idx, weeklyPRStats, stats, exportVars, report, charts, jsVars>>

\* retryRequest has settled: its array becomes commitActivity and the pull
\* requests are fetched; its error is logged by getRepositoryStats, rethrown,
\* and logged by main, which ends
GetStatsRetrySettled ==
    /\ run = "main"
    /\ pc = "retry_done"
    /\ settled' = Append(settled, "retryRequest")
    /\ RetryFrameDropped
    /\ IF retryResult.kind = "return"
       THEN /\ commitActivity' = retryResult.value
            /\ FetchStart("pullRequests", "window")
            /\ pc' = "fetch_loop"
            /\ log' = log
       ELSE /\ log' = log \o <<"Error fetching repository statistics",
                              "Error generating report">>
            /\ pc' = "main_done"
            /\ UNCHANGED <<commitActivity, call, filterFn, page, allData,
                           hasNextPage, requests, served>>
    /\ UNCHANGED <<run, tz, fetchResult, pullRequests, deployments,
                   idx, weeklyPRStats, stats, exportVars, report, charts, jsVars>>

\* the frame of a getAllPaginatedData call that has returned is gone
FetchFrameDropped ==
    /\ page' = 1 /\ allData' = <<>> /\ hasNextPage' = "true"
    /\ requests' = <<>> /\ served' = <<>>
    /\ fetchResult' = [kind |-> "pending", value |-> <<>>]
    /\ UNCHANGED <<call, filterFn>>

\* the fetch of the pull requests has returned; the deployments are fetched
GetStatsPullRequestsSettled ==
    /\ run = "main"
    /\ pc = "fetch_done"
    /\ call = "pullRequests"
    /\ settled' = Append(settled, "pullRequests")
    /\ pullRequests' = fetchResult.value
    /\ FetchStart("deployments", "window")
    /\ pc' = "fetch_loop"
    /\ UNCHANGED <<run, tz, log, retryVars, fetchResult, commitActivity, deployments,
                   idx, weeklyPRStats, stats, exportVars, report, charts, jsVars>>

\* the fetch of the deployments has returned; processStats is called
GetStatsDeploymentsSettled ==
    /\ run = "main"
    /\ pc = "fetch_done"
    /\ call = "deployments"
    /\ settled' = Append(settled, "deployments")
    /\ ProcessStart(commitActivity, pullRequests, fetchResult.value)
    /\ FetchFrameDropped
    /\ pc' = "process_loop"
    /\ UNCHANGED <<run, tz, log, retryVars, exportVars, report, charts, jsVars>>

\* getRepositoryStats resolves with the stats; generateReport, console.log
MainGenerateReport ==
    /\ run = "main"
    /\ pc = "process_done"
    /\ report' = <<GenerateReport(stats[1])>>
    /\ pc' = "main_charts_mkdir"
    /\ UNCHANGED <<run, tz, log, retryVars, fetchVars, composeVars, exportVars,
                   settled, charts, jsVars>>

\* generateCharts: fs.mkdir("output/charts") resolves
MainChartsMkdir ==
    /\ pc = "main_charts_mkdir"
    /\ pc' = "main_charts"
    /\ UNCHANGED <<run, tz, log, retryVars, fetchVars, composeVars, exportVars,
                   mainVars, jsVars>>

\* generateCharts: one chart is rendered and written; after the last one
\* "Charts generated successfully" is logged
MainChartWrite ==
    /\ pc = "main_charts"
    /\ charts' = Append(charts, ChartFiles[Len(charts) + 1])
    /\ IF Len(charts) + 1 = Len(ChartFiles)
       THEN /\ log' = Append(log, "Charts generated successfully")
            /\ pc' = "main_done"
       ELSE UNCHANGED <<log, pc>>
    /\ UNCHANGED <<run, tz, retryVars, fetchVars, composeVars, exportVars,
                   settled, report, jsVars>>

\* generateCharts: a step rejects; caught inside generateCharts
MainChartsFail ==
    /\ pc \in {"main_charts_mkdir", "main_charts"}
    /\ log' = Append(log, "Error generating charts")
    /\ pc' = "main_done"
    /\ UNCHANGED <<run, tz, retryVars, fetchVars, composeVars, exportVars,
                   mainVars, jsVars>>

----------------------------------------------------------------------------
(* Entry points *)

InitCompose ==
    /\ run = "processStats"
    /\ pc = "process_loop"
    /\ tz \in {0, 32400}
    /\ log = <<>>
    /\ commitActivity \in {<<>>, <<W1, W2>>}
    /\ pullRequests \in SeqsUpTo(ComposeRecords, MaxPRs)
    /\ deployments \in {d \in SeqsUpTo({Dep1, Dep2}, MaxDeployments) :
                          \A k \in 1..(Len(d) - 1) : d[k] = Dep1}
    /\ idx = 1
    /\ weeklyPRStats = <<>>
    /\ stats = <<>>
    /\ IdleExport
    /\ IdleMain
    /\ IdleRetry
    /\ IdleFetch
    /\ IdleJs

InitCollect ==
    /\ run = "collectData"
    /\ pc = "js_mkdir"
    /\ tz \in TZOffsets
    /\ log = <<>>
    /\ IdleJs
    /\ IdleCompose
    /\ IdleExport
    /\ IdleMain
    /\ IdleRetry
    /\ IdleFetch

NextCompose ==
    \/ ProcessPR
    \/ ComposeStats
    \/ ProcessStatsAgain

NextCollect ==
    \/ JsMkdir
    \/ JsGetGitHubMetrics
    \/ JsGetGitHubMetricsThrow
    \/ JsGetAsanaMetrics
    \/ JsGetAsanaMetricsThrow
    \/ JsGenerateReport
    \/ JsGenerateCharts
    \/ JsFail

\* processStats on drawn inputs
SpecCompose == InitCompose /\ [][NextCompose]_vars

InitMain ==
    /\ run = "main"
    /\ pc = "main"
    /\ tz \in {0, 32400}
    /\ log = <<>>
    /\ IdleRetry
    /\ IdleFetch
    /\ IdleCompose
    /\ IdleExport
    /\ IdleMain
    /\ IdleJs

NextMain ==
    \/ MainStart
    \/ RetryAttemptReturn
    \/ RetryAttemptWait
    \/ RetryAttemptThrow
    \/ RetrySleep
    \/ RetryExhausted
    \/ GetStatsRetrySettled
    \/ FetchPageOk
    \/ FetchPageThrow
    \/ FetchReturn
    \/ GetStatsPullRequestsSettled
    \/ GetStatsDeploymentsSettled
    \/ ProcessPR
    \/ ComposeStats
    \/ ExportMkdir
    \/ ExportWriteDetailed
    \/ ExportWriteWeekly
    \/ ExportFail
    \/ MainGenerateReport
    \/ MainChartsMkdir
    \/ MainChartWrite
    \/ MainChartsFail

Init == InitMain \/ InitCollect

Next == NextMain \/ NextCollect

\* a run of either program: main of dev-metric.mjs, main of dev-metric.js
Spec == Init /\ [][Next]_vars

----------------------------------------------------------------------------
(* Properties of getAllPaginatedData *)

InWindow(rec) == startDate - tz <= rec.created_at /\ rec.created_at <= endDate - tz

Accepted(f, data) == IF f = "window" THEN SelectSeq(data, InWindow) ELSE data

RECURSIVE ConcatFiltered(_, _, _)
ConcatFiltered(f, pages, n) ==
    IF n = 0 THEN <<>>
    ELSE ConcatFiltered(f, pages, n - 1) \o Accepted(f, pages[n].data)

NoThrow(pages) == \A k \in 1..Len(pages) : pages[k].kind = "ok"

IsTerminating(resp) == Len(resp.data) = 0 \/ resp.link # "next"

\* index of the first terminating page, 0 when there is none
TerminatingPage(pages) ==
    IF \E k \in 1..Len(pages) : IsTerminating(pages[k])
    THEN CHOOSE k \in 1..Len(pages) :
            /\ IsTerminating(pages[k])
            /\ \A j \in 1..(k - 1) : ~IsTerminating(pages[j])
    ELSE 0

FetchReturned == run = "getAllPaginatedData" /\ pc = "fetch_done"

\* C1: when no page request fails, getAllPaginatedData returns exactly the
\* concatenation, in page order, of the filtered records of every page up to
\* the terminating page (first page with zero raw records or without a
\* 'more pages' signal), and it requested exactly those pages.
C1_ConcatOfFilteredPages ==
    (FetchReturned /\ NoThrow(served)) =>
        /\ TerminatingPage(served) = Len(served)
        /\ fetchResult.kind = "return"
        /\ fetchResult.value = ConcatFiltered(filterFn, served, Len(served))

\* pages [[A,B],[]] with no filter have given [A,B]; and a filtered run over
\* three pages has returned records of more than one page
C1_Witness ==
    /\ FetchReturned
    /\ filterFn = "none"
    /\ Len(served) = 2
    /\ served[1].data = <<RecA, RecB>>
    /\ served[2].kind = "ok" /\ served[2].data = <<>>
    /\ fetchResult.value = <<RecA, RecB>>

\* C2: the page numbers requested are 1, 2, 3, ... without gap or repeat; no
\* request follows an empty page or a page without the 'more pages' signal;
\* a page whose records the filter all rejects leaves the loop running while
\* the source signals more pages.
C2_PageSequence ==
    run = "getAllPaginatedData" =>
        /\ \A k \in 1..Len(requests) : requests[k] = k
        /\ Len(served) = Len(requests)
        /\ \A k \in 1..(Len(served) - 1) :
              served[k].kind = "ok" /\ ~IsTerminating(served[k])
        /\ (/\ Len(served) > 0
            /\ served[Len(served)].kind = "ok"
            /\ ~IsTerminating(served[Len(served)]))
           => (pc = "fetch_loop" /\ Truthy(hasNextPage) /\ page = Len(served) + 1)

\* a page of rejected records only, with more pages signalled, was followed
\* by the request of the next page
C2_Witness ==
    /\ run = "getAllPaginatedData"
    /\ filterFn = "window"
    /\ requests = <<1, 2, 3>>
    /\ served[2].data = <<RecB>>
    /\ served[2].link = "next"

\* C3: a failed request for page k halts pagination: page k is the last page
\* requested, it is requested once, and the call returns (never raises) the
\* filtered records of pages 1..k-1.
C3_FailureHalts ==
    \A k \in 1..Len(served) :
        (run = "getAllPaginatedData" /\ served[k].kind = "throw") =>
            /\ k = Len(served)
            /\ requests = [j \in 1..k |-> j]
            /\ pc \in {"fetch_break", "fetch_done"}
            /\ allData = ConcatFiltered(filterFn, served, k - 1)
            /\ pc = "fetch_done" =>
                  /\ fetchResult.kind = "return"
                  /\ fetchResult.value = ConcatFiltered(filterFn, served, k - 1)

\* page 3 failed after two pages had contributed records, and the call returned
C3_Witness ==
    /\ FetchReturned
    /\ Len(served) = 3
    /\ served[3].kind = "throw"
    /\ Len(fetchResult.value) >= 2
    /\ filterFn = "window"

----------------------------------------------------------------------------
(* Properties of retryRequest *)

IsArray(resp) == resp.kind = "array"

\* a non-array result or the 202 'computation in progress' error
NotReady(resp) ==
    \/ resp.kind \in {"object", "undefined"}
    \/ resp.kind = "throw" /\ resp.status = 202

AllNotReady == \A k \in 1..Len(attempts) : NotReady(attempts[k])

\* C4: retryRequest calls the compute function at most maxRetries times; the
\* first array it yields is returned at once, with no further call; when all
\* maxRetries calls were not ready it returns the empty array after exactly
\* maxRetries calls and does not raise.
C4_RetryBudget ==
    run = "retryRequest" =>
        /\ calls <= maxRetries
        /\ Len(attempts) = calls
        /\ \A k \in 1..Len(attempts) :
              IsArray(attempts[k]) =>
                 /\ k = Len(attempts)
                 /\ \A j \in 1..(k - 1) : NotReady(attempts[j])
                 /\ pc = "retry_done"
                 /\ retryResult.kind = "return"
                 /\ retryResult.value = attempts[k].value
        /\ (pc = "retry_done" /\ AllNotReady) =>
              /\ calls = maxRetries
              /\ retryResult.kind = "return"
              /\ retryResult.value = <<>>

\* not ready twice, then a three-element array: returned after exactly 3 calls
C4_Witness ==
    /\ run = "retryRequest"
    /\ pc = "retry_done"
    /\ calls = 3
    /\ NotReady(attempts[1]) /\ NotReady(attempts[2])
    /\ attempts[3].value = <<W1, W2, W3>>
    /\ retryResult.kind = "return"
    /\ retryResult.value = <<W1, W2, W3>>

\* five calls, none ready: the empty array
C4_WitnessExhausted ==
    /\ run = "retryRequest"
    /\ pc = "retry_done"
    /\ maxRetries = 5
    /\ calls = 5
    /\ AllNotReady
    /\ retryResult.value = <<>>

\* C5: a failure other than the 202 signal propagates on the attempt where it
\* occurs: no further call, no backoff sleep after it, no empty default.
C5_OtherFailurePropagates ==
    \A k \in 1..Len(attempts) :
        (run = "retryRequest" /\ attempts[k].kind = "throw" /\ attempts[k].status # 202) =>
            /\ k = Len(attempts)
            /\ calls = k
            /\ Len(sleeps) = k - 1
            /\ pc = "retry_done"
            /\ retryResult.kind = "throw"
            /\ retryResult.status = attempts[k].status

\* a 500 on the third attempt, after two not-ready attempts, was rethrown
C5_Witness ==
    /\ run = "retryRequest"
    /\ Len(attempts) = 3
    /\ NotReady(attempts[1]) /\ NotReady(attempts[2])
    /\ attempts[3].kind = "throw" /\ attempts[3].status = 500
    /\ retryResult.kind = "throw"

----------------------------------------------------------------------------
(* Properties of the weekly aggregation and of the composed report *)

\* date of the most recent Sunday at or before instant t, in UTC
SundayAtOrBefore(t) ==
    LET day == DayNumber(t, 0)
    IN CivilFromDays(CHOOSE d \in (day - 6)..day : DayOfWeek(d) = 0)

RECURSIVE SumField(_, _)
SumField(buckets, field) ==
    IF buckets = <<>> THEN 0
    ELSE Head(buckets)[field] + SumField(Tail(buckets), field)

\* the buckets hold every record of times exactly once, under the date of
\* the UTC Sunday at or before it
BucketedByUTCWeek(buckets, times, field) ==
    /\ \A a, b \in 1..Len(buckets) : buckets[a].week = buckets[b].week => a = b
    /\ \A j \in 1..Len(times) :
          \E k \in 1..Len(buckets) : buckets[k].week = SundayAtOrBefore(times[j])
    /\ \A k \in 1..Len(buckets) :
          buckets[k][field] =
             Cardinality({j \in 1..Len(times) :
                            SundayAtOrBefore(times[j]) = buckets[k].week})
    /\ SumField(buckets, field) = Len(times)

CreatedTimes(prs) == [k \in 1..Len(prs) |-> prs[k].created_at]
JsCreatedTimes(prs) == [k \in 1..Len(prs) |-> prs[k].createdAt]
JsCompletedTimes(tasks) == [k \in 1..Len(tasks) |-> tasks[k].completedAt]

Logged(line) == \E k \in 1..Len(log) : log[k] = line

\* the part of C6 that is about processStats of dev-metric.mjs: the buckets
\* built from the pull requests processed so far
ProcessStatsBucketsUTC ==
    run \in {"main", "processStats"} =>
        BucketedByUTCWeek(weeklyPRStats,
                          CreatedTimes(SubSeq(pullRequests, 1, idx - 1)), "prCount")

\* C6: weekly aggregation puts every record in exactly one bucket, keyed by
\* the date of the most recent Sunday at or before its governing timestamp in
\* UTC (Wed 2024-06-12 -> 2024-06-09, Sunday 00:00:00 UTC -> its own date), so
\* that prCount over the buckets sums to the number of PRs and taskCount to
\* the number of tasks; for processStats and for aggregateWeeklyStats /
\* aggregateWeeklyTaskStats.
C6_BucketIsUTCSunday ==
    /\ SundayAtOrBefore(1718186400) = <<2024, 6, 9>>
    /\ SundayAtOrBefore(1717891200) = <<2024, 6, 9>>
    /\ ProcessStatsBucketsUTC
    /\ (run = "collectData" /\ pc \in {"js_asana", "js_report", "js_charts", "js_done"}
          /\ ~Logged("Error fetching GitHub metrics")) =>
         BucketedByUTCWeek(githubData.weeklyStats, JsCreatedTimes(githubData.prs), "prCount")
    /\ (run = "collectData" /\ pc \in {"js_report", "js_charts", "js_done"}
          /\ ~Logged("Error fetching Asana metrics")) =>
         BucketedByUTCWeek(asanaData.weeklyStats, JsCompletedTimes(asanaData.tasks),
                           "taskCount")

Composed == Len(stats) = 1

\* the rate part / whole * 100 to two decimals, 0 when whole is 0
GuardedRate(part, whole) ==
    IF whole = 0 THEN [kind |-> "number", cents |-> 0]
    ELSE [kind |-> "number", cents |-> (20000 * part + whole) \div (2 * whole)]

HasMergedAt(pr) == pr.merged_at # 0
HasBugLabel(pr) == "bug" \in pr.labels
HasBugLabelAndMergedAt(pr) == HasBugLabel(pr) /\ HasMergedAt(pr)

NumMerged(prs) == Cardinality({k \in 1..Len(prs) : HasMergedAt(prs[k])})
NumBug(prs) == Cardinality({k \in 1..Len(prs) : HasBugLabel(prs[k])})
NumMergedBug(prs) == Cardinality({k \in 1..Len(prs) : HasBugLabelAndMergedAt(prs[k])})

\* C7: prMergeRate is mergedPRs / totalPRs * 100 to two decimals, and 0 (not
\* NaN, not Infinity) when totalPRs is 0; the same guard holds for
\* averageCommitsPerWeek, the bug-PR merge rate and the task bugRate.
C7_RatesGuarded ==
    /\ GuardedRate(4, 10) = [kind |-> "number", cents |-> 4000]
    /\ Composed =>
         /\ stats[1].prStats.prMergeRate =
               GuardedRate(NumMerged(pullRequests), Len(pullRequests))
         /\ stats[1].commitStats.averageCommitsPerWeek.kind = "number"
    /\ Len(report) = 1 => report[1].bugPRMergeRate.kind = "number"
    /\ Len(jsReport) = 1 => jsReport[1].asana.bugRate.kind = "number"

\* what does hold of the rates: the value for a non-zero denominator
RatesWhenDefined ==
    /\ (Composed /\ Len(pullRequests) > 0) =>
          stats[1].prStats.prMergeRate =
             GuardedRate(NumMerged(pullRequests), Len(pullRequests))
    /\ (Composed /\ Len(pullRequests) = 0) => stats[1].prStats.prMergeRate.kind = "NaN"

WeekOf(pr) == SundayAtOrBefore(pr.created_at)

\* C8: a PR counts toward bugPRs.total (and bugPRs.merged when merged, and
\* its week's bugPRCount / mergedBugPRCount) iff its labels contain "bug";
\* every PR counts toward totalPRs (and mergedPRs when merged); so
\* bugPRs.total <= totalPRs, bugPRs.merged <= mergedPRs, and bugPRs.total is
\* the sum of bugPRCount over the weekly series.
C8_BugFamily ==
    Composed =>
        LET pr == stats[1].prStats
            weekly == pr.bugPRs.weeklyMetrics
        IN /\ pr.totalPRs = Len(pullRequests)
           /\ pr.mergedPRs = NumMerged(pullRequests)
           /\ pr.bugPRs.total = NumBug(pullRequests)
           /\ pr.bugPRs.merged = NumMergedBug(pullRequests)
           /\ pr.bugPRs.total <= pr.totalPRs
           /\ pr.bugPRs.merged <= pr.mergedPRs
           /\ pr.bugPRs.total = SumField(weekly, "bugPRCount")
           /\ pr.bugPRs.merged = SumField(weekly, "mergedBugPRCount")
           /\ \A k \in 1..Len(weekly) :
                 /\ weekly[k].bugPRCount =
                       Cardinality({j \in 1..Len(pullRequests) :
                                      /\ HasBugLabel(pullRequests[j])
                                      /\ WeekOf(pullRequests[j]) = weekly[k].week})
                 /\ weekly[k].mergedBugPRCount =
                       Cardinality({j \in 1..Len(pullRequests) :
                                      /\ HasBugLabelAndMergedAt(pullRequests[j])
                                      /\ WeekOf(pullRequests[j]) = weekly[k].week})

\* a PR labelled bug and P1 and a PR labelled P1 only were composed: two
\* PRs in total, one of them in the bug family
C8_Witness ==
    /\ run = "processStats"
    /\ Composed
    /\ pullRequests = <<PR2, PR3>>
    /\ stats[1].prStats.totalPRs = 2
    /\ stats[1].prStats.mergedPRs = 2
    /\ stats[1].prStats.bugPRs.total = 1
    /\ stats[1].prStats.bugPRs.merged = 1

----------------------------------------------------------------------------
(* Properties of a run of main *)

ComposerStarted ==
    \/ pc \in {"process_loop", "process_done", "main_charts_mkdir", "main_charts"}
    \/ Composed
    \/ epc # "idle"

\* C9: processStats starts only after retryRequest has settled and both
\* paginated fetches have returned; when retryRequest throws, processStats
\* never runs, nothing is exported, and main's catch logs the error.
C9_ComposerAfterFetches ==
    run = "main" =>
        /\ ComposerStarted =>
              /\ retryResult.kind = "return"
              /\ settled = <<"retryRequest", "pullRequests", "deployments">>
              /\ commitActivity = retryResult.value
        /\ retryResult.kind = "throw" =>
              /\ ~ComposerStarted
              /\ files = <<>>
              /\ report = <<>>
              /\ pc \in {"retry_done", "main_done"}
              /\ pc = "main_done" =>
                    /\ settled = <<"retryRequest">>
                    /\ Logged("Error generating report")

\* the composer ran in a run whose commit activity needed a retry
C9_Witness ==
    /\ run = "main"
    /\ Composed
    /\ commitActivity = <<W1, W2>>
    /\ Len(pullRequests) = 2
    /\ settled = <<"retryRequest", "pullRequests", "deployments">>

\* retryRequest threw and main logged the error without composing
C9_WitnessThrow ==
    /\ run = "main"
    /\ pc = "main_done"
    /\ retryResult.kind = "throw"
    /\ Logged("Error generating report")
    /\ ~Composed

ExportFailed == epc \in {"failed_mkdir", "failed_write_detailed", "failed_write_weekly"}

\* C10: a failure of any step of the export is caught inside the exporter:
\* the stats stay composed and unchanged, neither getRepositoryStats nor main
\* sees an error, and the run goes on to the report and the charts.
C10_ExportFailureNotFatal ==
    /\ [](ExportFailed =>
            /\ Composed
            /\ Logged("Error exporting stats to JSON")
            /\ ~Logged("Error fetching repository statistics")
            /\ ~Logged("Error generating report")
            /\ pc \in {"process_done", "main_charts_mkdir", "main_charts", "main_done"}
            /\ (run = "main" /\ pc = "main_done") =>
                  /\ Len(report) = 1
                  /\ report[1].totalPRs = stats[1].prStats.totalPRs
                  /\ Logged("Charts generated successfully")
                        \/ Logged("Error generating charts"))
    /\ [][/\ Composed => stats' = stats
          /\ (ExportFailed' /\ ~ExportFailed) => (pc' = pc /\ report' = report)]_vars

\* the second write failed, after the first file was written, and main went
\* on to finish the charts
C10_Witness ==
    /\ run = "main"
    /\ epc = "failed_write_weekly"
    /\ files = <<"detailed-metrics">>
    /\ pc = "main_done"
    /\ Len(report) = 1
    /\ Logged("Charts generated successfully")

\* the directory could not be created while the run was still inside
\* processStats' caller
C10_WitnessMkdir ==
    /\ run = "main"
    /\ epc = "failed_mkdir"
    /\ pc = "process_done"

----------------------------------------------------------------------------
(* Properties of a degraded run *)

RetriesExhausted == Logged("Maximum retries reached, returning empty array")
PageFailed == Logged("Error fetching page")
Degraded == RetriesExhausted \/ PageFailed

\* every formatted number of a stats object is a number
NoNaN(st) ==
    /\ st.commitStats.averageCommitsPerWeek.kind = "number"
    /\ st.prStats.prMergeRate.kind = "number"
    /\ st.prStats.recentPRsPerWeek.kind = "number"
    /\ st.deploymentStats.recentDeploymentsPerWeek.kind = "number"
    /\ \A k \in 1..Len(st.prStats.weeklyMetrics) :
          st.prStats.weeklyMetrics[k].averageMergeTime.kind = "number"

\* the parts of a stats object that depend on a missing collection are zeros
\* and empty series, and nothing is counted that was not fetched
ZerosForMissing(st) ==
    /\ RetriesExhausted =>
          /\ st.commitStats.totalCommitsLastYear = 0
          /\ st.commitStats.weeklyCommitTrend = <<>>
    /\ st.prStats.totalPRs = Len(pullRequests)
    /\ SumField(st.prStats.weeklyMetrics, "prCount") = Len(pullRequests)
    /\ st.deploymentStats.totalDeployments = Len(deployments)
    /\ pullRequests = <<>> =>
          /\ st.prStats.mergedPRs = 0
          /\ st.prStats.recentPRCount = 0
          /\ st.prStats.bugPRs.total = 0
          /\ st.prStats.weeklyMetrics = <<>>
    /\ deployments = <<>> => st.deploymentStats.recentDeploymentCount = 0

\* what does hold of a degraded run: it reaches the composer without an
\* error seen by getRepositoryStats or main, the counts are zeros and empty
\* series for what is missing, and the average over no commit weeks is NaN
DegradedRunComposes ==
    (run = "main" /\ Degraded) =>
        /\ ~Logged("Error fetching repository statistics")
        /\ ~Logged("Error generating report")
        /\ Composed => ZerosForMissing(stats[1])
        /\ (Composed /\ RetriesExhausted) =>
              stats[1].commitStats.averageCommitsPerWeek = NaN

\* C11: a degraded run still completes: when the retrier exhausts its
\* attempts (commit activity becomes the empty collection) or a paginated
\* fetch halts on a page failure (partial list), getRepositoryStats still runs
\* the composer and returns a stats object whose parts that depend on the
\* missing data are zeros or empty series, with no NaN and no fabricated
\* records.
C11_DegradedRunNoNaN ==
    (run = "main" /\ Degraded /\ Composed) =>
        /\ ZerosForMissing(stats[1])
        /\ NoNaN(stats[1])

----------------------------------------------------------------------------
(* Properties of repeated composition *)

\* the derived fields of a stats object that no clock enters
ClockFree(st) ==
    [commitStats |-> st.commitStats,
     totalPRs |-> st.prStats.totalPRs,
     mergedPRs |-> st.prStats.mergedPRs,
     averagePRsPerWeek |-> st.prStats.averagePRsPerWeek,
     prMergeRate |-> st.prStats.prMergeRate,
     weeklyMetrics |-> st.prStats.weeklyMetrics,
     bugPRs |-> st.prStats.bugPRs,
     totalDeployments |-> st.deploymentStats.totalDeployments,
     averageDeploymentsPerWeek |-> st.deploymentStats.averageDeploymentsPerWeek]

\* the derived fields computed against lastMonth
Recent(st) ==
    [recentPRCount |-> st.prStats.recentPRCount,
     recentPRsPerWeek |-> st.prStats.recentPRsPerWeek,
     recentDeploymentCount |-> st.deploymentStats.recentDeploymentCount,
     recentDeploymentsPerWeek |-> st.deploymentStats.recentDeploymentsPerWeek]

Recomposed == Composed /\ Composed' /\ pc = "process_done" /\ pc' = "process_done"

\* what does hold of a second composition: the fields no clock enters are
\* the same, and so are the buckets
ClockFreeFieldsRepeat ==
    [][Recomposed =>
          /\ ClockFree(stats'[1]) = ClockFree(stats[1])
          /\ weeklyPRStats' = weeklyPRStats]_vars

\* C12: composition is idempotent: processStats run twice on identical raw
\* inputs yields identical values for every derived numeric field, including
\* recentPRCount, recentPRsPerWeek, recentDeploymentCount and
\* recentDeploymentsPerWeek, whatever the times of the two runs.
C12_CompositionIdempotent ==
    [][Recomposed =>
          /\ ClockFree(stats'[1]) = ClockFree(stats[1])
          /\ Recent(stats'[1]) = Recent(stats[1])]_vars

----------------------------------------------------------------------------
(* Properties of the exposed weekly series *)

\* the week keys of the series increase strictly from each entry to the next
StrictlyAscending(series, key) ==
    \A k \in 1..(Len(series) - 1) : DateLess(series[k][key], series[k + 1][key])

\* no week key is listed twice
KeysOnce(series, key) ==
    \A a, b \in 1..Len(series) : series[a][key] = series[b][key] => a = b

\* what does hold: the weekly PR series of processStats is sorted with each
\* week once, whatever the order of the pull requests, and every series of
\* either program lists each week once and is empty for empty input
WeeklySeriesKeysOnce ==
    /\ Composed =>
          /\ StrictlyAscending(stats[1].prStats.weeklyMetrics, "week")
          /\ KeysOnce(stats[1].prStats.weeklyMetrics, "week")
          /\ pullRequests = <<>> => stats[1].prStats.weeklyMetrics = <<>>
    /\ Len(chartData) = 1 =>
          /\ KeysOnce(chartData[1].prTrend, "date")
          /\ KeysOnce(chartData[1].bugTrend, "date")
          /\ KeysOnce(chartData[1].reviewTime, "date")
          /\ githubData.prs = <<>> => chartData[1].prTrend = <<>>
          /\ asanaData.tasks = <<>> => chartData[1].bugTrend = <<>>

\* C13: every weekly series exposed for the report or for charting lists its
\* week buckets in strictly ascending week-key order, each week key once, for
\* every order in which the input records arrive (newest first included);
\* empty input yields an empty series.
C13_SeriesAscending ==
    /\ Composed =>
          /\ StrictlyAscending(stats[1].prStats.weeklyMetrics, "week")
          /\ KeysOnce(stats[1].prStats.weeklyMetrics, "week")
          /\ pullRequests = <<>> => stats[1].prStats.weeklyMetrics = <<>>
    /\ Len(chartData) = 1 =>
          /\ StrictlyAscending(chartData[1].prTrend, "date")
          /\ StrictlyAscending(chartData[1].bugTrend, "date")
          /\ StrictlyAscending(chartData[1].reviewTime, "date")
          /\ githubData.prs = <<>> => chartData[1].prTrend = <<>>

----------------------------------------------------------------------------
(* Properties of the PR week buckets *)

\* the counters of one bucket are ordered as the counts of nested sets are
BucketOrdered(b) ==
    /\ 1 <= b.prCount
    /\ 0 <= b.mergedBugPRCount
    /\ b.mergedBugPRCount <= b.bugPRCount
    /\ b.bugPRCount <= b.prCount
    /\ b.mergedBugPRCount <= b.mergedCount
    /\ b.mergedCount <= b.prCount

\* some pull request processed so far falls in the week of the bucket
Contributed(b) ==
    \E j \in 1..(idx - 1) : WeekOf(pullRequests[j]) = b.week

\* no counter of bucket a is above its value in bucket b
CountersAtMost(a, b) ==
    /\ a.prCount <= b.prCount
    /\ a.mergedCount <= b.mergedCount
    /\ a.totalMergeTime <= b.totalMergeTime
    /\ a.bugPRCount <= b.bugPRCount
    /\ a.mergedBugPRCount <= b.mergedBugPRCount

\* C14: after any sequence of PR records has been accumulated, every PR week
\* bucket has 1 <= prCount, 0 <= mergedBugPRCount <= bugPRCount <= prCount and
\* mergedBugPRCount <= mergedCount <= prCount; a bucket exists only if a record
\* contributed to it; counters never decrease as further records are processed.
C14_BucketCounters ==
    /\ [](run = "processStats" =>
            \A k \in 1..Len(weeklyPRStats) :
               /\ BucketOrdered(weeklyPRStats[k])
               /\ Contributed(weeklyPRStats[k]))
    /\ [][run = "processStats" =>
            /\ Len(weeklyPRStats) <= Len(weeklyPRStats')
            /\ \A k \in 1..Len(weeklyPRStats) :
                  /\ weeklyPRStats'[k].week = weeklyPRStats[k].week
                  /\ CountersAtMost(weeklyPRStats[k], weeklyPRStats'[k])]_vars

\* three pull requests of one week were accumulated: a merged bug, a merged
\* one without the label, an open bug
C14_Witness ==
    /\ run = "processStats"
    /\ pc = "process_loop"
    /\ pullRequests = <<PR3, PR2, PR4>>
    /\ idx = 4
    /\ Len(weeklyPRStats) = 1
    /\ weeklyPRStats[1].prCount = 3
    /\ weeklyPRStats[1].mergedCount = 2
    /\ weeklyPRStats[1].bugPRCount = 2
    /\ weeklyPRStats[1].mergedBugPRCount = 1

====
